---- MODULE Spec2Model ----
(***************************************************************************)
(* Model of dysmalpy.models.ModelSet: the component collection, its        *)
(* free / fixed / tied parameter bookkeeping and the control flow of       *)
(* simulate_cube (shape of the cube, spectral axis, the parameters it      *)
(* writes and the exceptions it raises).                                   *)
(*                                                                         *)
(* Parameter values are integers.  A component is a record                 *)
(*   [name, type, spatial, value, fixed, tied]                             *)
(* whose parameters are numbered 1..Len(value) in declared order; for a    *)
(* Geometry parameter 1 is xshift and parameter 2 is yshift.  An           *)
(* OrderedDict is a sequence of <<key, value>> pairs in insertion order.   *)
(* None is 0 for an object reference.                                      *)
(***************************************************************************)
EXTENDS Integers, Sequences, FiniteSets, TLC

\* ------------------------------------------------------------------ bounds
MaxComps == 2
MaxVal == 1
MaxDrift == 1

MaxPar == 2
Vals == 0..MaxVal
NVals == MaxVal + 1
Names == {"a", "b"}
Types == {"mass", "geometry", "dispersion", "zheight", "outflow", "flow",
          "extinction", "light"}

\* ------------------------------------------------------------------- state
VARIABLES
    objs,               \* every component object created so far (the heap)
    components,         \* OrderedDict name -> index in objs
    mass_components,    \* OrderedDict name -> BOOLEAN
    light_components,   \* OrderedDict name -> BOOLEAN
    parameters,         \* the concatenated parameter vector
    fixed,              \* OrderedDict name -> sequence of BOOLEAN
    tied,               \* OrderedDict name -> sequence of ties
    param_keys,         \* OrderedDict name -> sequence of 0-based indices
    nparams, nparams_free, nparams_tied,
    slots,              \* geometry, dispersion_profile, zprofile, outflow, ...
    line_center,        \* "None" or "set"
    ret,                \* outcome of the last call
    ac                  \* the loop of apply_adiabatic_contract in progress

vars == <<objs, components, mass_components, light_components, parameters,
          fixed, tied, param_keys, nparams, nparams_free, nparams_tied,
          slots, line_center, ret, ac>>

\* -------------------------------------------------------------- OrderedDict
HasKey(d, k) == \E i \in 1..Len(d) : d[i][1] = k

Get(d, k) == d[CHOOSE i \in 1..Len(d) : d[i][1] = k][2]

Put(d, k, v) ==
    IF HasKey(d, k)
    THEN [i \in 1..Len(d) |-> IF d[i][1] = k THEN <<k, v>> ELSE d[i]]
    ELSE Append(d, <<k, v>>)

RECURSIVE SumSeq(_)
SumSeq(s) == IF s = <<>> THEN 0 ELSE s[1] + SumSeq(Tail(s))

\* ------------------------------------------------------------------- ties
NoTie == [cmp |-> "", idx |-> 0]

IsTied(t) == t.idx # 0

CountTrue(s) == Cardinality({i \in 1..Len(s) : s[i]})

CountTied(s) == Cardinality({i \in 1..Len(s) : IsTied(s[i])})

\* ----------------------------------------------------------------- results
RetBase == [op |-> "init", err |-> "none", arg |-> <<>>, len |-> 0,
            nevals |-> 0, alloc |-> FALSE, cube |-> <<>>, spec |-> <<>>]

Ret(op, err, arg, nevals) ==
    [RetBase EXCEPT !.op = op, !.err = err, !.arg = arg, !.nevals = nevals]

NoSlots == [geometry |-> 0, dispersion_profile |-> 0, zprofile |-> 0,
            outflow |-> 0, outflow_geometry |-> 0, outflow_dispersion |-> 0,
            flow |-> 0, flow_geometry |-> 0, flow_dispersion |-> 0,
            extinction |-> 0]

\* No call of apply_adiabatic_contract is in progress.
NoLoop == [pc |-> "idle"]

\* ---------------------------------------------------------------- __init__
Init ==
    /\ objs = <<>>
    /\ components = <<>>
    /\ mass_components = <<>>
    /\ light_components = <<>>
    /\ parameters = <<>>
    /\ fixed = <<>>
    /\ tied = <<>>
    /\ param_keys = <<>>
    /\ nparams = 0
    /\ nparams_free = 0
    /\ nparams_tied = 0
    /\ slots = NoSlots
    /\ line_center = "None"
    /\ ret = RetBase
    /\ ac = NoLoop

\* ----------------------------------------------------------- add_component
\* The slot a component of a given type is stored in (0-arity types none).
SlotsAfterAdd(model, id, geom_type, disp_type) ==
    CASE model.type = "geometry" /\ geom_type = "galaxy" ->
            [slots EXCEPT !.geometry = id]
      [] model.type = "geometry" /\ geom_type = "outflow" ->
            [slots EXCEPT !.outflow_geometry = id]
      [] model.type = "geometry" /\ geom_type = "flow" ->
            [slots EXCEPT !.flow_geometry = id]
      [] model.type = "dispersion" /\ disp_type = "galaxy" ->
            [slots EXCEPT !.dispersion_profile = id]
      [] model.type = "dispersion" /\ disp_type = "outflow" ->
            [slots EXCEPT !.outflow_dispersion = id]
      [] model.type = "dispersion" /\ disp_type = "flow" ->
            [slots EXCEPT !.flow_dispersion = id]
      [] model.type = "zheight" -> [slots EXCEPT !.zprofile = id]
      [] model.type = "outflow" -> [slots EXCEPT !.outflow = id]
      [] model.type = "flow" -> [slots EXCEPT !.flow = id]
      [] model.type = "extinction" -> [slots EXCEPT !.extinction = id]
      [] OTHER -> slots

MassAfterAdd(model) ==
    CASE model.type = "mass" -> Put(mass_components, model.name, TRUE)
      [] model.type = "light" -> mass_components
      [] OTHER -> Put(mass_components, model.name, FALSE)

NameTaken(model) ==
    model.type = "mass" /\ HasKey(mass_components, model.name)

\* _add_comp: append the component's parameters and update the bookkeeping.
add_comp(model, id) ==
    LET n == Len(model.value)
        ntied == CountTied(model.tied)
    IN  /\ objs' = Append(objs, model)
        /\ components' = Put(components, model.name, id)
        /\ parameters' = parameters \o model.value
        /\ fixed' = Put(fixed, model.name, model.fixed)
        /\ tied' = Put(tied, model.name, model.tied)
        /\ param_keys' = Put(param_keys, model.name,
                             [i \in 1..n |-> (i - 1) + nparams])
        /\ nparams' = nparams + n
        /\ nparams_free' = nparams_free + (n - CountTrue(model.fixed) - ntied)
        /\ nparams_tied' = nparams_tied + ntied

add_component(model, light, geom_type, disp_type) ==
    IF NameTaken(model)
       THEN /\ ret' = Ret("add_component", "ValueError", <<>>, 0)
            /\ UNCHANGED <<objs, components, mass_components,
                           light_components, parameters, fixed, tied,
                           param_keys, nparams, nparams_free, nparams_tied,
                           slots, line_center>>
       ELSE IF model.type \notin Types
       THEN /\ ret' = Ret("add_component", "TypeError", <<>>, 0)
            /\ UNCHANGED <<objs, components, mass_components,
                           light_components, parameters, fixed, tied,
                           param_keys, nparams, nparams_free, nparams_tied,
                           slots, line_center>>
       ELSE LET id == Len(objs) + 1 IN
            /\ mass_components' = MassAfterAdd(model)
            /\ slots' = SlotsAfterAdd(model, id, geom_type, disp_type)
            /\ light_components' =
                   Put(light_components, model.name,
                       light \/ model.type = "light")
            /\ add_comp(model, id)
            /\ ret' = Ret("add_component", "none", <<>>, 0)
            /\ UNCHANGED line_center

\* ------------------------------------------------------ set_parameter_value
\* The two assignments of set_parameter_value: the component's own value and
\* the entry of the concatenated vector.  st = [objs, parameters, nevals].
set_value(st, model_name, param_name, value) ==
    [st EXCEPT !.objs[Get(components, model_name)].value[param_name] = value,
               !.parameters[Get(param_keys, model_name)[param_name] + 1] = value]

\* A tying function receives the ModelSet and returns a value computed from
\* the parameter it reads.
TieFn(t, st) ==
    (st.objs[Get(components, t.cmp)].value[t.idx] + 1) % NVals

RECURSIVE Flatten(_)
Flatten(d) ==
    IF d = <<>> THEN <<>>
    ELSE [i \in 1..Len(d[1][2]) |-> <<d[1][1], i>>] \o Flatten(Tail(d))

RECURSIVE TiedLoop(_, _)
TiedLoop(todo, st) ==
    IF todo = <<>> THEN st
    ELSE LET cmp == todo[1][1]
             pp == todo[1][2]
             t == Get(tied, cmp)[pp]
         IN  IF IsTied(t)
             THEN TiedLoop(Tail(todo),
                           [set_value(st, cmp, pp, TieFn(t, st))
                               EXCEPT !.nevals = @ + 1])
             ELSE TiedLoop(Tail(todo), st)

update_tied_parameters_morethanone(st) ==
    IF nparams_tied > 1 THEN TiedLoop(Flatten(tied), st) ELSE st

update_tied_parameters(st) ==
    IF nparams_tied > 0 THEN TiedLoop(Flatten(tied), st) ELSE st

Store == [objs |-> objs, parameters |-> parameters, nevals |-> 0]

KnownParam(model_name, param_name) ==
    /\ HasKey(components, model_name)
    /\ param_name \in 1..Len(objs[Get(components, model_name)].value)

LookupError(model_name) ==
    IF HasKey(components, model_name) THEN "ValueError" ELSE "KeyError"

set_parameter_value(model_name, param_name, value, skip_updated_tied) ==
    IF ~KnownParam(model_name, param_name)
    THEN /\ ret' = Ret("set_parameter_value", LookupError(model_name),
                       <<>>, 0)
         /\ UNCHANGED <<objs, components, mass_components, light_components,
                        parameters, fixed, tied, param_keys, nparams,
                        nparams_free, nparams_tied, slots, line_center>>
    ELSE LET st1 == set_value(Store, model_name, param_name, value)
             st2 == IF skip_updated_tied THEN st1
                    ELSE update_tied_parameters(st1)
         IN  /\ objs' = st2.objs
             /\ parameters' = st2.parameters
             /\ ret' = Ret("set_parameter_value", "none",
                           <<skip_updated_tied>>, st2.nevals)
             /\ UNCHANGED <<components, mass_components, light_components,
                            fixed, tied, param_keys, nparams, nparams_free,
                            nparams_tied, slots, line_center>>

\* ------------------------------------------------------ set_parameter_fixed
FreeAfterFix(fix) == IF fix THEN nparams_free - 1 ELSE nparams_free + 1

set_parameter_fixed(model_name, param_name, fix) ==
    IF ~KnownParam(model_name, param_name)
    THEN /\ ret' = Ret("set_parameter_fixed", LookupError(model_name),
                       <<>>, 0)
         /\ UNCHANGED <<objs, components, mass_components, light_components,
                        parameters, fixed, tied, param_keys, nparams,
                        nparams_free, nparams_tied, slots, line_center>>
    ELSE /\ FreeAfterFix(fix) \in (0 - MaxDrift)..(nparams + MaxDrift)
         /\ objs' = [objs EXCEPT
                       ![Get(components, model_name)].fixed[param_name] = fix]
         /\ fixed' = Put(fixed, model_name,
                         [Get(fixed, model_name) EXCEPT ![param_name] = fix])
         /\ nparams_free' = FreeAfterFix(fix)
         /\ ret' = Ret("set_parameter_fixed", "none", <<>>, 0)
         /\ UNCHANGED <<components, mass_components, light_components,
                        parameters, tied, param_keys, nparams, nparams_tied,
                        slots, line_center>>

\* ----------------------------------------------------- _get_free_parameters
\* pkeys is the sequence of <<component, parameter, index or -99>> in the
\* iteration order of the fixed dictionary; p has nparams_free entries.
IsFree(cmp, pm) == ~(Get(fixed, cmp)[pm] \/ IsTied(Get(tied, cmp)[pm]))

RECURSIVE FreeLoop(_, _, _, _)
FreeLoop(todo, j, p, pkeys) ==
    IF todo = <<>> THEN [err |-> "none", p |-> p, pkeys |-> pkeys]
    ELSE LET cmp == todo[1][1]
             pm == todo[1][2]
         IN  IF ~IsFree(cmp, pm)
             THEN FreeLoop(Tail(todo), j, p, Append(pkeys, <<cmp, pm, -99>>))
             ELSE IF j >= Len(p)
             THEN [err |-> "IndexError", p |-> p, pkeys |-> pkeys]
             ELSE FreeLoop(Tail(todo), j + 1,
                           [p EXCEPT ![j + 1] =
                               parameters[Get(param_keys, cmp)[pm] + 1]],
                           Append(pkeys, <<cmp, pm, j>>))

get_free_parameters ==
    IF nparams_free < 0
    THEN [err |-> "ValueError", p |-> <<>>, pkeys |-> <<>>]
    ELSE FreeLoop(Flatten(fixed), 0, [i \in 1..nparams_free |-> 0], <<>>)

get_free_parameters_values == get_free_parameters

get_free_parameter_keys == get_free_parameters

\* -------------------------------------------------------- update_parameters
RECURSIVE AssignLoop_resolving(_, _, _)
AssignLoop_resolving(pkeys, theta, st) ==
    IF pkeys = <<>> THEN st
    ELSE LET cmp == pkeys[1][1]
             pp == pkeys[1][2]
             ind == pkeys[1][3]
         IN  IF ind # -99
             THEN AssignLoop_resolving(Tail(pkeys), theta,
                      update_tied_parameters(
                          set_value(st, cmp, pp, theta[ind + 1])))
             ELSE AssignLoop_resolving(Tail(pkeys), theta, st)

\* The loop over pfree_keys: every index other than -99 is assigned through
\* set_parameter_value with skip_updated_tied=True, which is set_value alone.
RECURSIVE AssignLoop(_, _, _)
AssignLoop(pkeys, theta, st) ==
    IF pkeys = <<>> THEN st
    ELSE LET cmp == pkeys[1][1]
             pp == pkeys[1][2]
             ind == pkeys[1][3]
         IN  IF ind # -99
             THEN AssignLoop(Tail(pkeys), theta,
                             set_value(st, cmp, pp, theta[ind + 1]))
             ELSE AssignLoop(Tail(pkeys), theta, st)

LengthOk_atleast(theta) == Len(theta) >= nparams_free

LengthOk(theta) == Len(theta) = nparams_free

update_parameters(theta) ==
    IF ~LengthOk(theta)
    THEN /\ ret' = [Ret("update_parameters", "ValueError", <<>>, 0)
                        EXCEPT !.len = Len(theta)]
         /\ UNCHANGED <<objs, components, mass_components, light_components,
                        parameters, fixed, tied, param_keys, nparams,
                        nparams_free, nparams_tied, slots, line_center>>
    ELSE LET g == get_free_parameters IN
         IF g.err # "none"
         THEN /\ ret' = [Ret("update_parameters", g.err, <<>>, 0)
                             EXCEPT !.len = Len(theta)]
              /\ UNCHANGED <<objs, components, mass_components,
                             light_components, parameters, fixed, tied,
                             param_keys, nparams, nparams_free, nparams_tied,
                             slots, line_center>>
         ELSE LET st2 == update_tied_parameters(
                             AssignLoop(g.pkeys, theta, Store))
              IN  /\ objs' = st2.objs
                  /\ parameters' = st2.parameters
                  /\ ret' = [Ret("update_parameters", "none", theta,
                                  st2.nevals) EXCEPT !.len = Len(theta)]
                  /\ UNCHANGED <<components, mass_components,
                                 light_components, fixed, tied, param_keys,
                                 nparams, nparams_free, nparams_tied, slots,
                                 line_center>>

\* ------------------------------------------------------------ simulate_cube
\* Strings of transform_method are sequences of characters.
UpperCase == <<"A", "B", "C", "D", "E", "F", "G", "H", "I", "J", "K", "L", "M",
               "N", "O", "P", "Q", "R", "S", "T", "U", "V", "W", "X", "Y", "Z">>

LowerCase == <<"a", "b", "c", "d", "e", "f", "g", "h", "i", "j", "k", "l", "m",
               "n", "o", "p", "q", "r", "s", "t", "u", "v", "w", "x", "y", "z">>

Whitespace == {" ", "\t", "\n"}

Lower(s) ==
    [i \in 1..Len(s) |->
        IF \E k \in 1..26 : UpperCase[k] = s[i]
        THEN LowerCase[CHOOSE k \in 1..26 : UpperCase[k] = s[i]]
        ELSE s[i]]

Strip(s) ==
    LET keep == {i \in 1..Len(s) : s[i] \notin Whitespace} IN
    IF keep = {} THEN <<>>
    ELSE LET lo == CHOOSE i \in keep : \A k \in keep : i <= k
             hi == CHOOSE i \in keep : \A k \in keep : i >= k
         IN  SubSeq(s, lo, hi)

Direct == <<"d", "i", "r", "e", "c", "t">>

Rotate == <<"r", "o", "t", "a", "t", "e">>

Method(transform_method) == Strip(Lower(transform_method))

MethodKnown(transform_method) == Method(transform_method) \in {Direct, Rotate}

\* nx_sky_samp / ny_sky_samp: one pixel is added when the sky size is odd
\* and the oversize factor is even.
SkySamp(n_sky, oversample, oversize) ==
    IF n_sky % 2 = 1 /\ oversize % 2 = 0 /\ oversize > 1
    THEN n_sky * oversample * oversize + 1
    ELSE n_sky * oversample * oversize

SpecAxis(nspec, spec_step, spec_start) ==
    [i \in 1..nspec |-> (i - 1) * spec_step + spec_start]

LineCenterMissing_never(spec_type) == FALSE

LineCenterMissing(spec_type) == spec_type = "wavelength" /\ line_center = "None"

HasMass == \E i \in 1..Len(mass_components) : mass_components[i][2]

HasLight == \E i \in 1..Len(light_components) : light_components[i][2]

\* geometry.xshift = geometry.xshift.value * oversample (and yshift): written
\* to the component only.
ScaleShift(o, id, oversample) ==
    [o EXCEPT ![id].value[1] = @ * oversample, ![id].value[2] = @ * oversample]

RestoreShift(o, id, oversample) ==
    [o EXCEPT ![id].value[1] = @ \div oversample,
              ![id].value[2] = @ \div oversample]

Outcome(err, o) == [err |-> err, objs |-> o]

\* The cube of the mass components.
MassBlock(a, o) ==
    LET g == slots.geometry
        rot == Method(a.transform_method) = Rotate
        freeflow == slots.flow # 0 /\ slots.flow_geometry = 0
    IN  IF ~HasMass THEN Outcome("none", o)
        ELSE IF g = 0 THEN Outcome("AttributeError", o)
        ELSE LET o1 == ScaleShift(o, g, a.oversample) IN
             IF HasLight /\ slots.zprofile = 0 THEN Outcome("TypeError", o1)
             ELSE IF slots.dispersion_profile = 0 THEN Outcome("TypeError", o1)
             ELSE IF a.zcalc_truncate /\ slots.zprofile = 0
             THEN Outcome("AttributeError", o1)
             ELSE IF rot /\ freeflow
             THEN Outcome(IF a.zcalc_truncate THEN "NameError" ELSE "TypeError",
                          o1)
             ELSE Outcome("none", RestoreShift(o1, g, a.oversample))

\* The cube of the outflow.
OutflowBlock(a, o) ==
    LET f == slots.outflow
        g == slots.outflow_geometry
    IN  IF f = 0 THEN Outcome("none", o)
        ELSE IF o[f].spatial = "resolved"
        THEN IF g = 0 THEN Outcome("AttributeError", o)
             ELSE LET o1 == ScaleShift(o, g, a.oversample) IN
                  IF slots.outflow_dispersion = 0 THEN Outcome("TypeError", o1)
                  ELSE Outcome("none", RestoreShift(o1, g, a.oversample))
        ELSE IF o[f].spatial = "unresolved"
        THEN IF g = 0 THEN Outcome("AttributeError", o)
             ELSE IF ~HasMass THEN Outcome("NameError", o)
             ELSE Outcome("none", o)
        ELSE Outcome("none", o)

\* The cube of a flow that has its own geometry.
FlowBlock(a, o) ==
    LET f == slots.flow
        g == slots.flow_geometry
    IN  IF f = 0 \/ g = 0 THEN Outcome("none", o)
        ELSE IF o[f].spatial = "resolved"
        THEN LET o1 == ScaleShift(o, g, a.oversample) IN
             IF slots.flow_dispersion = 0 THEN Outcome("TypeError", o1)
             ELSE Outcome("none", RestoreShift(o1, g, a.oversample))
        ELSE Outcome("none", o)

CubeShape_swapped(a) ==
    <<a.nspec, SkySamp(a.nx_sky, a.oversample, a.oversize),
      SkySamp(a.ny_sky, a.oversample, a.oversize)>>

CubeShape(a) ==
    <<a.nspec, SkySamp(a.ny_sky, a.oversample, a.oversize),
      SkySamp(a.nx_sky, a.oversample, a.oversize)>>

\* The blocks in order; the first exception ends the call.
Blocks(a) ==
    LET m == MassBlock(a, objs) IN
    IF m.err # "none" THEN m
    ELSE LET f == OutflowBlock(a, m.objs) IN
         IF f.err # "none" THEN f ELSE FlowBlock(a, f.objs)

\* What the caller observes: of a call that raises, the exception and the
\* mode arguments; of a call that returns, the sizes, the cube and the axis.
NoArgs == [nx_sky |-> 0, ny_sky |-> 0, oversample |-> 0, oversize |-> 0,
           nspec |-> 0, spec_start |-> 0, spec_step |-> 0, spec_type |-> "",
           transform_method |-> <<>>, zcalc_truncate |-> FALSE]

Raised(err, a, alloc) ==
    [RetBase EXCEPT !.op = "simulate_cube", !.err = err, !.alloc = alloc,
                    !.arg = [NoArgs EXCEPT
                               !.spec_type = a.spec_type,
                               !.transform_method = a.transform_method,
                               !.zcalc_truncate = a.zcalc_truncate]]

Returned(a, cube, spec) ==
    [RetBase EXCEPT !.op = "simulate_cube", !.alloc = TRUE, !.cube = cube,
                    !.spec = spec,
                    !.arg = [NoArgs EXCEPT
                               !.nx_sky = a.nx_sky, !.ny_sky = a.ny_sky,
                               !.oversample = a.oversample,
                               !.oversize = a.oversize, !.nspec = a.nspec,
                               !.spec_start = a.spec_start,
                               !.spec_step = a.spec_step,
                               !.spec_type = a.spec_type,
                               !.transform_method = a.transform_method]]

simulate_cube(a) ==
    /\ UNCHANGED <<components, mass_components, light_components, parameters,
                   fixed, tied, param_keys, nparams, nparams_free,
                   nparams_tied, slots, line_center>>
    /\ IF ~MethodKnown(a.transform_method)
       THEN ret' = Raised("ValueError", a, FALSE) /\ UNCHANGED objs
       ELSE IF LineCenterMissing(a.spec_type)
       THEN ret' = Raised("ValueError", a, FALSE) /\ UNCHANGED objs
       ELSE LET b == Blocks(a) IN
            /\ objs' = b.objs
            /\ ret' = IF b.err # "none"
                      THEN Raised(b.err, a, TRUE)
                      ELSE Returned(a, CubeShape(a),
                                    SpecAxis(a.nspec, a.spec_step,
                                             a.spec_start))

\* mod_set.line_center = ...
set_line_center ==
    /\ line_center = "None"
    /\ line_center' = "set"
    /\ ret' = Ret("set_line_center", "none", <<>>, 0)
    /\ UNCHANGED <<objs, components, mass_components, light_components,
                   parameters, fixed, tied, param_keys, nparams, nparams_free,
                   nparams_tied, slots, ac>>

\* ---------------------------------------------------------------- inputs
\* Component classes of the parameter specification: a mass class with two
\* parameters, the others with one.
ParamCount(type) == IF type \in {"mass", "geometry"} THEN 2 ELSE 1

ParamTypes == {"mass", "dispersion", "light"}

Others(name) ==
    {components[c][1] : c \in {c \in 1..Len(components) : components[c][1] # name}}

Ref(cmp, idx) == [cmp |-> cmp, idx |-> idx]

\* Tying functions a caller may attach: to a parameter of the same component
\* or to the first parameter of a component already in the set.
TieMenu(name, n) ==
    IF n = 1
    THEN {<<NoTie>>} \cup {<<Ref(o, 1)>> : o \in Others(name)}
    ELSE {<<NoTie, NoTie>>, <<NoTie, Ref(name, 1)>>}
         \cup {<<NoTie, Ref(o, 1)>> : o \in Others(name)}
         \cup {<<Ref(name, 2), Ref(o, 1)>> : o \in Others(name)}

NewModels(name, type) ==
    LET n == ParamCount(type) IN
    {[name |-> name, type |-> type, spatial |-> "", value |-> v,
      fixed |-> f, tied |-> t] :
        v \in [1..n -> Vals], f \in [1..n -> BOOLEAN], t \in TieMenu(name, n)}

\* theta of the right length and of the two neighbouring lengths.
Thetas ==
    UNION {[1..n -> Vals] :
             n \in {m \in {nparams_free - 1, nparams_free, nparams_free + 1} :
                      m >= 0}}

AddAct ==
    /\ Len(objs) < MaxComps
    /\ \E name \in Names, type \in ParamTypes :
        \E model \in NewModels(name, type) :
            add_component(model, FALSE, "galaxy", "galaxy")
    /\ UNCHANGED ac

SetValueAct ==
    /\ \E name \in Names, pp \in 1..MaxPar, v \in Vals, skip \in BOOLEAN :
        set_parameter_value(name, pp, v, skip)
    /\ UNCHANGED ac

UpdateAct == (\E theta \in Thetas : update_parameters(theta)) /\ UNCHANGED ac

Next == AddAct \/ SetValueAct \/ UpdateAct

Spec == Init /\ [][Next]_vars

\* The specification of the fixed flags: components of every type, whose
\* flags are then changed with set_parameter_fixed.
FlagModels(name, type) ==
    {m \in NewModels(name, type) : \A i \in 1..Len(m.value) : m.value[i] = 0}

AddFlagAct ==
    /\ Len(objs) < MaxComps
    /\ \E name \in Names, type \in Types \cup {"unknown"} :
        \E model \in FlagModels(name, type) :
            add_component(model, FALSE, "galaxy", "galaxy")
    /\ UNCHANGED ac

SetFixedAct ==
    /\ \E name \in Names, pp \in 1..MaxPar, fix \in BOOLEAN :
        set_parameter_fixed(name, pp, fix)
    /\ UNCHANGED ac

NextFixed == AddFlagAct \/ SetFixedAct

SpecFixed == Init /\ [][NextFixed]_vars

\* The specification of the cube: a mass component, a geometry and a
\* dispersion profile under their usual names, then simulate_cube.
MaxCubeComps == 3
MaxSky == 2
MaxOver == 2
MaxSpec == 2
MaxShift == 2

CubeTypes == {"mass", "geometry", "dispersion"}

CubeModels ==
    {[name |-> t, type |-> t, spatial |-> "",
      value |-> [i \in 1..ParamCount(t) |-> 1],
      fixed |-> [i \in 1..ParamCount(t) |-> FALSE],
      tied |-> [i \in 1..ParamCount(t) |-> NoTie]] : t \in CubeTypes}

Methods == {Direct, <<" ", "R", "o", "t", "a", "t", "e">>,
            <<"a", "f", "f", "i", "n", "e">>}

CubeArgs ==
    [nx_sky : 1..MaxSky, ny_sky : 1..MaxSky, oversample : 1..MaxOver,
     oversize : 1..MaxOver, nspec : {MaxSpec}, spec_start : {1},
     spec_step : {2}, spec_type : {"velocity", "wavelength"},
     transform_method : Methods, zcalc_truncate : BOOLEAN]

AddCubeAct ==
    /\ Len(objs) < MaxCubeComps
    /\ \E model \in CubeModels : add_component(model, FALSE, "galaxy", "galaxy")
    /\ UNCHANGED ac

\* A call that raises leaves the shifts multiplied: no further call once a
\* shift has passed MaxShift.
ShiftsBounded ==
    \A id \in 1..Len(objs) :
        \A i \in 1..Len(objs[id].value) : objs[id].value[i] <= MaxShift

SimulateAct ==
    /\ ShiftsBounded
    /\ \E a \in CubeArgs : simulate_cube(a)
    /\ UNCHANGED ac

NextCube == AddCubeAct \/ set_line_center \/ SimulateAct

SpecCube == Init /\ [][NextCube]_vars

\* ---------------------------------------------------- calc_mvirial_from_fdm
\* fdm is the number k / FdmDen + e * 0.5e-10: e tells a value within 1e-10
\* of k / FdmDen from k / FdmDen itself.  Numbers of this form are compared
\* first by k, then by e.
FdmDen == 2

Fdm(k, e) == [k |-> k, e |-> e]

FdmLess(a, b) == a.k < b.k \/ (a.k = b.k /\ a.e < b.e)

\* bounds=(0,1) of the fdm parameter of every halo class.
FdmBounds == <<Fdm(0, 0), Fdm(FdmDen, 0)>>

\* 1.e-10
FdmTiny == Fdm(0, 2)

\* np.arange(-5, 50, 1.0)
MTestFirst == -5
MTestLast == 49
mtest == [i \in 1..(MTestLast - MTestFirst + 1) |-> MTestFirst + i - 1]

HaloClasses == {"NFW", "LinearNFW", "TwoPowerHalo", "Burkert", "Einasto",
                "DekelZhao"}

\* A float is a number, inf, -inf or nan; a root that brentq finds is known by
\* its bracket.
Num(n) == [kind |-> "num", v |-> n]

Inf == [kind |-> "inf"]

MinusInf == [kind |-> "-inf"]

NaN == [kind |-> "nan"]

IsFinite(x) == x.kind = "num"

\* halotmp.circular_velocity(r_fdm) ** 2 of the copy of the halo whose
\* mvirial is the trial value: it grows with the trial mass and with the
\* halo's scale, and vanishes with the radius.
HaloVsqr(halo, mvirial, r_fdm) ==
    r_fdm * halo.scale * (mvirial - MTestFirst + 1)

Sign(x) == IF x < 0 THEN -1 ELSE IF x > 0 THEN 1 ELSE 0

\* The sign of _minfunc_vdm_mvir_from_fdm(m, vsqr_dm_re_target, r_fdm), where
\* vsqr_dm_re_target = vsqr_bar_re / (1./fdm - 1): for fdm = k / FdmDen the
\* two sides are compared after multiplying by FdmDen - k; an fdm within
\* 1e-10 of 0 (of 1) makes the target vanishingly small (large) against
\* every trial velocity that is not zero.
MinfuncSign(halo, mvirial, vsqr_bar_re, r_fdm) ==
    LET vdm == HaloVsqr(halo, mvirial, r_fdm)
        fdm == halo.fdm
    IN  IF fdm.e = 0
        THEN Sign(vdm * (FdmDen - fdm.k) - vsqr_bar_re * fdm.k)
        ELSE IF fdm.k = 0
        THEN IF vdm > 0 THEN 1 ELSE Sign(0 - vsqr_bar_re)
        ELSE IF vsqr_bar_re > 0 THEN -1 ELSE Sign(vdm)

\* DekelZhao._minfunc_vdm_mvir_from_fdm looks the copy of the halo up as
\* modtmp.components['halo'].
MinfuncError(halo) ==
    IF halo.cls = "DekelZhao" /\ halo.name # "halo" THEN "KeyError" ELSE "none"

\* mtest[vtest < 0][-1] and mtest[vtest > 0][0]: 0 elements make IndexError.
Below(vtest) == {i \in 1..Len(vtest) : vtest[i] < 0}

Above(vtest) == {i \in 1..Len(vtest) : vtest[i] > 0}

Last(S) == CHOOSE i \in S : \A k \in S : k <= i

First(S) == CHOOSE i \in S : \A k \in S : i <= k

MvirialBase == [op |-> "calc_mvirial_from_fdm", err |-> "none", arg |-> <<>>,
                out |-> NaN, nbary |-> 0, ntrial |-> 0, nbrentq |-> 0]

MvirialOut(out) == [MvirialBase EXCEPT !.out = out]

\* The trial masses are scanned and brentq is run on the bracket found.
ScanAndSolve(halo, vsqr_bar_re, r_fdm) ==
    IF MinfuncError(halo) # "none"
    THEN [MvirialBase EXCEPT !.err = MinfuncError(halo), !.nbary = 1,
                             !.ntrial = 1]
    ELSE LET vtest == [i \in 1..Len(mtest) |->
                          MinfuncSign(halo, mtest[i], vsqr_bar_re, r_fdm)]
         IN  IF Below(vtest) = {} \/ Above(vtest) = {}
             THEN [MvirialBase EXCEPT !.err = "ValueError", !.nbary = 1,
                                      !.ntrial = Len(mtest)]
             ELSE [MvirialBase EXCEPT
                     !.out = [kind |-> "root",
                              a |-> mtest[Last(Below(vtest))],
                              b |-> mtest[First(Above(vtest))]],
                     !.nbary = 1, !.ntrial = Len(mtest), !.nbrentq = 1]

FdmOutOfBounds_upper(halo) == FdmLess(FdmBounds[2], halo.fdm)

\* fdm > bounds['fdm'][1] or fdm < bounds['fdm'][0]
FdmOutOfBounds(halo) ==
    FdmLess(FdmBounds[2], halo.fdm) \/ FdmLess(halo.fdm, FdmBounds[1])

\* DarkMatterHalo.calc_mvirial_from_fdm and the override of DekelZhao, which
\* differ in the arguments of the function scanned.  vbar is what
\* baryons.circular_velocity(r_fdm) returns.
calc_mvirial_from_fdm(halo, vbar, r_fdm) ==
    IF FdmOutOfBounds(halo) THEN MvirialOut(NaN)
    ELSE IF halo.fdm = Fdm(FdmDen, 0) THEN MvirialOut(Inf)
    ELSE IF halo.fdm = Fdm(0, 0) THEN MvirialOut(MinusInf)
    ELSE IF FdmLess(halo.fdm, FdmTiny) THEN MvirialOut(MinusInf)
    ELSE IF r_fdm < 0 THEN MvirialOut(NaN)
    ELSE IF ~IsFinite(vbar) THEN [MvirialOut(NaN) EXCEPT !.nbary = 1]
    ELSE ScanAndSolve(halo, vbar.v * vbar.v, r_fdm)

\* Inputs of the halo specification.
MaxFdm == 3
MaxScale == 2
MaxVbar == 3
MaxRfdm == 2

FdmMenu ==
    {Fdm(k, 0) : k \in -1..MaxFdm}
      \cup {Fdm(0, e) : e \in {-1, 1, 2}}
      \cup {Fdm(FdmDen, e) : e \in {-1, 1}}

Halos ==
    [cls : HaloClasses, name : {"halo", "a"}, fdm : FdmMenu,
     scale : 1..MaxScale]

MvirialArgs ==
    [halo : Halos, vbar : {Num(n) : n \in 0..MaxVbar} \cup {Inf, NaN},
     r_fdm : -1..MaxRfdm]

\* A function of the module is about to be called with the arguments arg, on
\* a ModelSet as constructed.
Pending(args) ==
    /\ objs = <<>>
    /\ components = <<>>
    /\ mass_components = <<>>
    /\ light_components = <<>>
    /\ parameters = <<>>
    /\ fixed = <<>>
    /\ tied = <<>>
    /\ param_keys = <<>>
    /\ nparams = 0
    /\ nparams_free = 0
    /\ nparams_tied = 0
    /\ slots = NoSlots
    /\ line_center = "None"
    /\ ac = NoLoop
    /\ \E a \in args : ret = [op |-> "pending", arg |-> a]

MvirialAct ==
    /\ ret.op = "pending"
    /\ ret' = [calc_mvirial_from_fdm(ret.arg.halo, ret.arg.vbar, ret.arg.r_fdm)
                  EXCEPT !.arg = ret.arg]
    /\ UNCHANGED <<objs, components, mass_components, light_components,
                   parameters, fixed, tied, param_keys, nparams, nparams_free,
                   nparams_tied, slots, line_center, ac>>

NextHalo == MvirialAct

SpecHalo == Pending(MvirialArgs) /\ [][NextHalo]_vars

\* ------------------------------------------------ apply_adiabatic_contract
\* Radii are counted in units of step1d, so that r1d is 1, 2, .., n.  A halo
\* velocity is an integer, a baryonic velocity is held as its square, and an
\* interpolated value is an exact fraction.
MaxIter == 200
MaxStretch == 6
KeepNum == 9
KeepDen == 10
SmallFactor == 5

Rat(num, den) == [num |-> num, den |-> den]

r1d(n) == [i \in 1..n |-> i]

HaloCurves == {"flat", "rising"}

vhalo1d(curve, n) ==
    [i \in 1..n |-> IF curve = "flat" \/ i = 1 THEN 1 ELSE 2]

\* interp1d(xs, ys, fill_value='extrapolate', kind='linear'), evaluated at x:
\* the segment x falls in, the first or the last one when x lies outside.
Segment(xs, x) ==
    IF x <= xs[1] THEN 1
    ELSE IF x >= xs[Len(xs)] THEN Len(xs) - 1
    ELSE CHOOSE k \in 1..(Len(xs) - 1) : xs[k] <= x /\ x < xs[k + 1]

interp1d(xs, ys, x) ==
    LET k == Segment(xs, x)
    IN  Rat(ys[k] * (xs[k + 1] - x) + ys[k + 1] * (x - xs[k]),
            xs[k + 1] - xs[k])

\* Both clamps of _adiabatic: 0.1 kpc is half a default step and lies below
\* adia_x_dm[1] (Python index 1 is the second grid radius, index 2 here).
ClampRprime(rprime, adia_x_dm) ==
    IF rprime < adia_x_dm[2] THEN adia_x_dm[2] ELSE rprime

\* The value of _adiabatic multiplied by rprime * v_dm(rprime)^2, which is
\* positive, so that the sign and the zeros are those of the function; NaN
\* where the halo velocity vanishes and the quotient is 0/0 or x/0.
adiabatic(rprime, r_adi, adia_v_dm, adia_x_dm, adia_v_disk_sq) ==
    LET rp == ClampRprime(rprime, adia_x_dm)
        v  == interp1d(adia_x_dm, adia_v_dm, rp).num
    IN  IF v = 0 THEN NaN
        ELSE Num(r_adi * rp * v * v + r_adi * r_adi * adia_v_disk_sq
                   - rp * rp * v * v)

\* scipy.optimize.newton without a derivative is the secant iteration started
\* at r1d[i] + 1.  What the call can do is all the model keeps of it: raise,
\* return a root of the function, or (where the radius lies in the clamped
\* range, in which the function is constant) return a point of that range.
Raise == [kind |-> "raise"]
Ok(x) == [kind |-> "ok", x |-> x]

Trials(n) == 0..(MaxStretch * n)

newton(r_adi, adia_v_dm, adia_x_dm, adia_v_disk_sq) ==
    {Raise} \cup
    {Ok(x) : x \in {t \in Trials(Len(adia_x_dm)) :
        \/ adiabatic(t, r_adi, adia_v_dm, adia_x_dm, adia_v_disk_sq) = Num(0)
        \/ r_adi < adia_x_dm[2] /\ t < adia_x_dm[2]}}

\* One pass of the loop body after the solver call: the try/except and the
\* adiabatic_contract_modify_small_values block.
Tossed_never(arg, result) == FALSE

Tossed(arg, result) ==
    /\ arg.small_values = "True"
    /\ result < 0 \/ result > SmallFactor * arg.n

Identity_converged(i) == [result |-> i, converged |-> TRUE]

Identity(i) == [result |-> i, converged |-> FALSE]

LoopBody(arg, i, outcome) ==
    LET tried == IF outcome.kind = "ok"
                 THEN [result |-> outcome.x, converged |-> TRUE]
                 ELSE Identity(i)
    IN  IF Tossed(arg, tried.result) THEN Identity(i) ELSE tried

\* converged.sum() < len(r1d) and converged.sum() >= 0.9 * len(r1d)
KeepConverged(converged) ==
    LET sum == Cardinality({i \in 1..Len(converged) : converged[i]})
    IN  /\ sum < Len(converged)
        /\ KeepDen * sum >= KeepNum * Len(converged)

AdiabaticBase == [op |-> "apply_adiabatic_contract", err |-> "none",
                  arg |-> <<>>, r1d |-> <<>>, rprime_all_1d |-> <<>>,
                  converged |-> <<>>, solved |-> <<>>, vhalo_adi |-> <<>>,
                  vel_sq |-> <<>>]

VelSq(vhalo, vbsq) ==
    [i \in 1..Len(vhalo) |->
        Rat(vhalo[i].num * vhalo[i].num + vbsq * vhalo[i].den * vhalo[i].den,
            vhalo[i].den * vhalo[i].den)]

\* The code after the loop, the sample radii r being the radii of the grid.
Contracted(arg, rprime_all, converged, solved) ==
    LET grid == r1d(arg.n)
        vh   == vhalo1d(arg.curve, arg.n)
        IsConverged(i) == converged[i]
        kept == IF KeepConverged(converged)
                THEN SelectSeq(grid, IsConverged) ELSE grid
        rp   == [k \in 1..Len(kept) |-> rprime_all[kept[k]]]
        vhalo_adi_1d == [k \in 1..Len(kept) |-> interp1d(grid, vh, rp[k]).num]
        vhalo_adi == [i \in 1..arg.n |-> interp1d(kept, vhalo_adi_1d, i)]
    IN  [AdiabaticBase EXCEPT !.arg = arg, !.r1d = kept, !.rprime_all_1d = rp,
                              !.converged = converged, !.solved = solved,
                              !.vhalo_adi = vhalo_adi,
                              !.vel_sq = VelSq(vhalo_adi, arg.vbsq)]

\* adiabatic_contract is off: vel = sqrt(vhalo^2 + vbaryon^2), vhalo as given.
Uncontracted(arg) ==
    LET vh == [i \in 1..arg.n |-> Rat(vhalo1d(arg.curve, arg.n)[i], 1)]
    IN  [AdiabaticBase EXCEPT !.arg = arg, !.vhalo_adi = vh,
                              !.vel_sq = VelSq(vh, arg.vbsq)]

MaxGrid == 10
MaxNewtonGrid == 3

\* Baryonic velocities for which, in a flat halo of velocity 1, the root of
\* _adiabatic at radius r is k * r: k * k = k + vbsq.
VbsqMenu == {k * (k - 1) : k \in {1, 2, MaxStretch}}

ContractArgs == [adiabatic_contract : BOOLEAN,
                 n : {2, MaxGrid},
                 curve : HaloCurves,
                 vbsq : VbsqMenu,
                 small_values : {"absent", "False", "True"}]

NewtonArgs == [adiabatic_contract : BOOLEAN,
               n : 2..MaxNewtonGrid,
               curve : HaloCurves,
               vbsq : VbsqMenu,
               small_values : {"absent", "False", "True"}]

ModelSetState == <<objs, components, mass_components, light_components,
                   parameters, fixed, tied, param_keys, nparams, nparams_free,
                   nparams_tied, slots, line_center>>

\* solved keeps what the solver did at each radius passed so far.
Loop(i, rprime_all, converged, solved) ==
    [pc |-> "loop", i |-> i, iter |-> 0, rprime_all_1d |-> rprime_all,
     converged |-> converged, solved |-> solved]

\* The call up to the loop; the whole call when adiabatic_contract is off.
ContractStart ==
    /\ ret.op = "pending"
    /\ ac = NoLoop
    /\ IF ret.arg.adiabatic_contract
       THEN ac' = Loop(1, <<>>, <<>>, <<>>) /\ ret' = ret
       ELSE ac' = ac /\ ret' = Uncontracted(ret.arg)
    /\ UNCHANGED ModelSetState

NextRadius(outcome) ==
    LET done == LoopBody(ret.arg, ac.i, outcome)
    IN  ac' = Loop(ac.i + 1, Append(ac.rprime_all_1d, done.result),
                   Append(ac.converged, done.converged),
                   Append(ac.solved, outcome))

Solve(i) ==
    newton(i, vhalo1d(ret.arg.curve, ret.arg.n), r1d(ret.arg.n), ret.arg.vbsq)

\* One radius of the loop, the solver call taken as a whole.
SolveRadius ==
    /\ ac.pc = "loop"
    /\ ac.i <= ret.arg.n
    /\ \E outcome \in Solve(ac.i) : NextRadius(outcome)
    /\ UNCHANGED <<ModelSetState, ret>>

ContractReturn ==
    /\ ac.pc = "loop"
    /\ ac.i > ret.arg.n
    /\ ret' = Contracted(ret.arg, ac.rprime_all_1d, ac.converged, ac.solved)
    /\ ac' = NoLoop
    /\ UNCHANGED ModelSetState

NextAdiabatic == ContractStart \/ SolveRadius \/ ContractReturn

SpecAdiabatic == Pending(ContractArgs) /\ [][NextAdiabatic]_vars

\* The same call with the solver taken one iteration at a time: newton runs
\* for itr in range(maxiter), returns from inside an iteration, and raises
\* RuntimeError when the range is used up.
IterationsLeft_unbounded(itr) == TRUE

\* for itr in range(maxiter)
IterationsLeft(itr) == itr < MaxIter

NewtonIterate ==
    /\ ac.pc = "loop"
    /\ ac.i <= ret.arg.n
    /\ IterationsLeft(ac.iter)
    /\ ac' = [ac EXCEPT !.iter = @ + 1]
    /\ UNCHANGED <<ModelSetState, ret>>

NewtonReturn ==
    /\ ac.pc = "loop"
    /\ ac.i <= ret.arg.n
    /\ IterationsLeft(ac.iter)
    /\ \E outcome \in Solve(ac.i) : outcome.kind = "ok" /\ NextRadius(outcome)
    /\ UNCHANGED <<ModelSetState, ret>>

NewtonRaise ==
    /\ ac.pc = "loop"
    /\ ac.i <= ret.arg.n
    /\ NextRadius(Raise)
    /\ UNCHANGED <<ModelSetState, ret>>

NextNewton ==
    ContractStart \/ NewtonIterate \/ NewtonReturn \/ NewtonRaise
        \/ ContractReturn

SpecNewton == Pending(NewtonArgs) /\ [][NextNewton]_vars

\* The interpreter keeps executing the call it is in.
SpecNewtonFair == SpecNewton /\ WF_vars(NextNewton)

\* ---------------------------------------------------------- pressure support
\* A component as the loops over model.mass_components see it: its class, its
\* _subtype, its entry in mass_components, and its r_eff (r_eff_disk) and n
\* (n_disk) where the class has them.
NoneVal == [kind |-> "None"]
AttributeError == [kind |-> "AttributeError"]

DiskClasses == {"Sersic", "ExpDisk", "DiskBulge", "LinearDiskBulge"}
ComponentClasses == DiskClasses \cup {"BlackHole", "NFW", "Geometry"}

Subtype(cls) ==
    IF cls = "NFW" THEN "dark_matter"
    ELSE IF cls = "Geometry" THEN "None" ELSE "baryonic"

Attributes(cls) ==
    IF cls = "Sersic" THEN {"r_eff", "n"}
    ELSE IF cls = "ExpDisk" THEN {"r_eff"}
    ELSE IF cls \in {"DiskBulge", "LinearDiskBulge"} THEN {"r_eff_disk", "n_disk"}
    ELSE {}

Component(cls, r_eff, n) ==
    [cls |-> cls, subtype |-> Subtype(cls), mass |-> cls # "Geometry",
     r_eff |-> r_eff, n |-> n]

getattribute(mcomp, name) ==
    IF name \notin Attributes(mcomp.cls) THEN AttributeError
    ELSE IF name \in {"r_eff", "r_eff_disk"} THEN Num(mcomp.r_eff)
    ELSE Num(mcomp.n)

p_altnames(param) == IF param = "re" THEN "r_eff" ELSE "n"
DiskName(p_altname) == IF p_altname = "r_eff" THEN "r_eff_disk" ELSE "n_disk"

\* The components at which the loop of get_pressure_support_param stops.
Stops(comps) ==
    {k \in 1..Len(comps) :
        comps[k].mass /\ comps[k].subtype \in {"baryonic", "combined"}}

ParamBase == [op |-> "get_pressure_support_param", err |-> "none",
              arg |-> <<>>, p_val |-> NoneVal]

get_pressure_support_param(ko, comps, param) ==
    IF param \notin {"n", "re"} THEN [ParamBase EXCEPT !.err = "ValueError"]
    ELSE LET paramkey == IF param = "re" THEN ko.pressure_support_re
                         ELSE ko.pressure_support_n
             mcomp == comps[First(Stops(comps))]
             p_val ==
                 IF Stops(comps) = {} THEN NoneVal
                 ELSE IF mcomp.cls \in {"DiskBulge", "LinearDiskBulge"}
                 THEN getattribute(mcomp, DiskName(p_altnames(param)))
                 ELSE IF mcomp.cls \in {"Sersic", "ExpDisk"}
                 THEN getattribute(mcomp, p_altnames(param))
                 ELSE NoneVal
         IN  IF paramkey # NoneVal THEN [ParamBase EXCEPT !.p_val = paramkey]
             ELSE IF p_val = AttributeError
             THEN [ParamBase EXCEPT !.err = "AttributeError"]
             ELSE IF p_val = NoneVal THEN [ParamBase EXCEPT !.p_val = Num(1)]
             ELSE [ParamBase EXCEPT !.p_val = p_val]

MaxMass == 2
SetRe == 7

\* The k-th component added has r_eff k + 1 and n k + 1 + MaxMass, so that no
\* two values of a model agree and none is the fallback 1.
CompLists ==
    UNION {{[k \in 1..m |-> Component(f[k], k + 1, k + 1 + MaxMass)] :
                f \in [1..m -> ComponentClasses]} : m \in 0..MaxMass}

ParamArgs == [comps : CompLists,
              param : {"re", "n", "x"},
              ko : [pressure_support_re : {NoneVal, Num(SetRe)},
                    pressure_support_n : {NoneVal}]]

ParamAct ==
    /\ ret.op = "pending"
    /\ ret' = [get_pressure_support_param(ret.arg.ko, ret.arg.comps,
                                          ret.arg.param)
                  EXCEPT !.arg = ret.arg]
    /\ UNCHANGED <<ModelSetState, ac>>

NextParam == ParamAct

SpecParam == Pending(ParamArgs) /\ [][NextParam]_vars

\* A velocity is the square root of a fraction in lowest terms, so that **2
\* and np.sqrt are exact and two velocities are equal when their records are.
RECURSIVE GCD(_, _)
GCD(a, b) == IF b = 0 THEN a ELSE GCD(b, a % b)

Abs(x) == IF x < 0 THEN 0 - x ELSE x

Lowest(num, den) ==
    LET g == GCD(Abs(num), den)
    IN  Rat(num \div g, den \div g)

Sqrt(q) == IF q.num < 0 THEN NaN ELSE [kind |-> "sqrt", of |-> q]
Squared(v) == v.of

Difference(a, b) == Lowest(a.num * b.den - b.num * a.den, a.den * b.den)
Sum(a, b) == Lowest(a.num * b.den + b.num * a.den, a.den * b.den)

ClampSquared(vel_squared) ==
    IF vel_squared.num < 0 THEN Rat(0, 1) ELSE vel_squared

\* 3.36 is 336 / 100; pressure_support_type 1 and a constant dispersion.
DriftNum == 336
DriftDen == 100

PressureBase == [op |-> "apply_pressure_support", err |-> "none",
                 arg |-> <<>>, vel |-> NaN]

get_asymm_drift_profile(ko, model, r) ==
    LET pre == get_pressure_support_param(ko, model.comps, "re")
    IN  IF pre.err # "none" THEN [PressureBase EXCEPT !.err = pre.err]
        ELSE IF model.sigma0 = NoneVal
        THEN [PressureBase EXCEPT !.err = "AttributeError"]
        ELSE [PressureBase EXCEPT !.vel =
                 Sqrt(Lowest(DriftNum * r * model.sigma0.v * model.sigma0.v,
                             DriftDen * pre.p_val.v))]

apply_pressure_support(ko, model, r, vel) ==
    IF ~ko.pressure_support THEN [PressureBase EXCEPT !.vel = vel]
    ELSE LET vel_asymm_drift == get_asymm_drift_profile(ko, model, r)
         IN  IF vel_asymm_drift.err # "none" THEN vel_asymm_drift
             ELSE [PressureBase EXCEPT !.vel =
                      Sqrt(ClampSquared(Difference(Squared(vel),
                               Squared(vel_asymm_drift.vel))))]

Restored_minus(vel, vel_asymm_drift) ==
    Difference(Squared(vel), Squared(vel_asymm_drift))

\* vel_squared = (vel **2 + vel_asymm_drift**2)
Restored(vel, vel_asymm_drift) ==
    Sum(Squared(vel), Squared(vel_asymm_drift))

correct_for_pressure_support(ko, model, r, vel) ==
    IF ~ko.pressure_support THEN [PressureBase EXCEPT !.vel = vel]
    ELSE LET vel_asymm_drift == get_asymm_drift_profile(ko, model, r)
         IN  IF vel_asymm_drift.err # "none" THEN vel_asymm_drift
             ELSE [PressureBase EXCEPT !.vel =
                      Sqrt(ClampSquared(Restored(vel, vel_asymm_drift.vel)))]

MaxRe == 2
MaxSigma == 2
MaxR == 3
MaxVel == 3

Velocity(v) == Sqrt(Rat(v * v, 1))

PressureArgs ==
    [ko : [pressure_support : BOOLEAN,
           pressure_support_re : {NoneVal} \cup {Num(k) : k \in 1..MaxRe},
           pressure_support_n : {NoneVal}],
     model : [comps : {<<>>, <<Component("BlackHole", 0, 0)>>,
                       <<Component("ExpDisk", MaxRe + 1, 1)>>},
              sigma0 : {NoneVal} \cup {Num(s) : s \in 0..MaxSigma}],
     r : 0..MaxR,
     vel : {Velocity(v) : v \in 0..MaxVel}]

ApplyAct ==
    /\ ret.op = "pending"
    /\ ret' = [apply_pressure_support(ret.arg.ko, ret.arg.model, ret.arg.r,
                                      ret.arg.vel)
                  EXCEPT !.arg = ret.arg]
    /\ UNCHANGED <<ModelSetState, ac>>

\* correct_for_pressure_support called on what apply_pressure_support returned.
CorrectAct ==
    /\ ret.op = "apply_pressure_support"
    /\ ret.err = "none"
    /\ ret' = [correct_for_pressure_support(ret.arg.ko, ret.arg.model,
                                            ret.arg.r, ret.vel)
                  EXCEPT !.arg = ret.arg,
                         !.op = "correct_for_pressure_support"]
    /\ UNCHANGED <<ModelSetState, ac>>

NextPressure == ApplyAct \/ CorrectAct

SpecPressure == Pending(PressureArgs) /\ [][NextPressure]_vars

\* ----------------------------------------------------------------- Geometry
\* An angle is held as its cosine and sine, fractions over AngleDen, and a
\* coordinate as a fraction in lowest terms, so that the rotations are exact.
AngleDen == 5

Angle(c, s) == [c |-> c, s |-> s]
Cos(a) == Lowest(a.c, AngleDen)
Sin(a) == Lowest(a.s, AngleDen)

\* cos(pa - 90) = sin(pa), sin(pa - 90) = -cos(pa)
Minus90(a) == Angle(a.s, 0 - a.c)

Times(a, b) == Lowest(a.num * b.num, a.den * b.den)
Neg(a) == Rat(0 - a.num, a.den)

Point(x, y, z) == [x |-> x, y |-> y, z |-> z]

evaluate(x, y, z, inc, pa, xshift, yshift, vel_shift) ==
    LET rot  == Minus90(pa)
        xsky == Difference(x, xshift)
        ysky == Difference(y, yshift)
        zsky == z
        xtmp == Sum(Times(xsky, Cos(rot)), Times(ysky, Sin(rot)))
        ytmp == Sum(Times(Neg(xsky), Sin(rot)), Times(ysky, Cos(rot)))
        ztmp == zsky
    IN  Point(xtmp,
              Difference(Times(ytmp, Cos(inc)), Times(ztmp, Sin(inc))),
              Sum(Times(ytmp, Sin(inc)), Times(ztmp, Cos(inc))))

\* The body of evaluate again, on the geometry's own parameters (the keyword
\* arguments are left None).
coord_transform(self, p) ==
    evaluate(p.x, p.y, p.z, self.inc, self.pa, self.xshift, self.yshift,
             self.vel_shift)

inverse_coord_transform_unrotated(self, p) ==
    LET ytmp == Sum(Times(p.y, Cos(self.inc)), Times(p.z, Sin(self.inc)))
        ztmp == Sum(Times(Neg(p.y), Sin(self.inc)), Times(p.z, Cos(self.inc)))
    IN  Point(Sum(Times(p.x, Cos(self.pa)),
                  Sum(Neg(Times(ytmp, Sin(self.pa))), self.xshift)),
              Sum(Times(p.x, Sin(self.pa)),
                  Sum(Times(ytmp, Cos(self.pa)), self.yshift)),
              ztmp)

inverse_coord_transform(self, p) ==
    LET rot  == Minus90(self.pa)
        xtmp == p.x
        ytmp == Sum(Times(p.y, Cos(self.inc)), Times(p.z, Sin(self.inc)))
        ztmp == Sum(Times(Neg(p.y), Sin(self.inc)), Times(p.z, Cos(self.inc)))
    IN  Point(Sum(Difference(Times(xtmp, Cos(rot)), Times(ytmp, Sin(rot))),
                  self.xshift),
              Sum(Sum(Times(xtmp, Sin(rot)), Times(ytmp, Cos(rot))),
                  self.yshift),
              ztmp)

MaxCoord == 1
MaxOffset == 1

\* inc within its bounds (0, 90) and pa within (-180, 180), one angle a quadrant.
IncMenu == {Angle(5, 0), Angle(4, 3), Angle(3, 4), Angle(0, 5)}
PaMenu == {Angle(4, 3), Angle(0 - 3, 4), Angle(0 - 4, 0 - 3), Angle(3, 0 - 4),
           Angle(5, 0)}

Whole(S) == {Rat(n, 1) : n \in S}

GeometryArgs ==
    [self : [inc : IncMenu, pa : PaMenu, xshift : Whole(0..MaxOffset),
             yshift : Whole({0}), vel_shift : Whole(0..MaxOffset)],
     p : [x : Whole((0 - MaxCoord)..MaxCoord),
          y : Whole((0 - MaxCoord)..MaxCoord),
          z : Whole(0..MaxCoord)]]

Transformed(op, arg, after, out) ==
    [op |-> op, arg |-> arg, after |-> after, out |-> out]

\* coord_transform of the point given, or of what inverse_coord_transform
\* returned for it.
TransformAct ==
    /\ \/ ret.op = "pending" /\
          ret' = Transformed("coord_transform", ret.arg, "pending",
                             coord_transform(ret.arg.self, ret.arg.p))
       \/ ret.op = "inverse_coord_transform" /\ ret.after = "pending" /\
          ret' = Transformed("coord_transform", ret.arg, ret.op,
                             coord_transform(ret.arg.self, ret.out))
    /\ UNCHANGED <<ModelSetState, ac>>

InverseAct ==
    /\ \/ ret.op = "pending" /\
          ret' = Transformed("inverse_coord_transform", ret.arg, "pending",
                             inverse_coord_transform(ret.arg.self, ret.arg.p))
       \/ ret.op = "coord_transform" /\ ret.after = "pending" /\
          ret' = Transformed("inverse_coord_transform", ret.arg, ret.op,
                             inverse_coord_transform(ret.arg.self, ret.out))
    /\ UNCHANGED <<ModelSetState, ac>>

NextGeometry == TransformAct \/ InverseAct

SpecGeometry == Pending(GeometryArgs) /\ [][NextGeometry]_vars

\* ------------------------------------------- the walks over mass_components
\* What a walk keeps of a component is its _subtype and its entry in
\* mass_components; what it returns is held as the components that went into
\* each sum.
Subtypes == {"dark_matter", "baryonic", "combined", "gas"}

Active(comps) == {k \in 1..Len(comps) : comps[k].mass}

OfSubtype(comps, S) == {k \in Active(comps) : comps[k].subtype \in S}

WalkBase == [op |-> "walk", err |-> "none", arg |-> <<>>,
             total |-> {}, dm |-> {}, baryon |-> {}]

\* The error of the first component a walk does not take, the subtypes in
\* accepted being taken and those in refused raising ValueError.
WalkError(comps, accepted, refused) ==
    LET bad == OfSubtype(comps, Subtypes \ accepted)
    IN  IF bad = {} THEN "none"
        ELSE IF comps[First(bad)].subtype \in refused THEN "ValueError"
        ELSE "TypeError"

\* The loop at the head of apply_adiabatic_contract, adiabatic_contract on.
AdiabaticWalk(comps) ==
    LET err == WalkError(comps, {"dark_matter", "baryonic"}, {"combined"})
    IN  IF err # "none" THEN [WalkBase EXCEPT !.err = err]
        ELSE [WalkBase EXCEPT !.dm = OfSubtype(comps, {"dark_matter"}),
                              !.baryon = OfSubtype(comps, {"baryonic"})]

circular_velocity(comps, adiabatic_contract) ==
    LET err == WalkError(comps, {"dark_matter", "combined", "baryonic"}, {})
    IN  IF Len(comps) = 0 THEN [WalkBase EXCEPT !.err = "AttributeError"]
        ELSE IF err # "none" THEN [WalkBase EXCEPT !.err = err]
        ELSE IF adiabatic_contract /\ AdiabaticWalk(comps).err # "none"
        THEN AdiabaticWalk(comps)
        ELSE [WalkBase EXCEPT
                 !.dm = OfSubtype(comps, {"dark_matter", "combined"}),
                 !.baryon = OfSubtype(comps, {"baryonic"})]

enclosed_mass(comps, adiabatic_contract) ==
    LET enc_dm == OfSubtype(comps, {"dark_matter"})
    IN  IF Len(comps) = 0 THEN [WalkBase EXCEPT !.err = "AttributeError"]
        ELSE IF enc_dm # {} /\ adiabatic_contract
                 /\ circular_velocity(comps, TRUE).err # "none"
        THEN circular_velocity(comps, TRUE)
        ELSE [WalkBase EXCEPT !.total = Active(comps), !.dm = enc_dm,
                              !.baryon = OfSubtype(comps, {"baryonic"})]

MaxWalk == 2

WalkArgs ==
    [comps : UNION {[1..m -> [subtype : Subtypes, mass : BOOLEAN]] :
                       m \in 0..MaxWalk},
     adiabatic_contract : BOOLEAN]

Walked(op, result) == [result EXCEPT !.op = op, !.arg = ret.arg]

CircularVelocityAct ==
    /\ ret.op = "pending"
    /\ ret' = Walked("circular_velocity",
                     circular_velocity(ret.arg.comps, ret.arg.adiabatic_contract))
    /\ UNCHANGED <<ModelSetState, ac>>

EnclosedMassAct ==
    /\ ret.op = "pending"
    /\ ret' = Walked("enclosed_mass",
                     enclosed_mass(ret.arg.comps, ret.arg.adiabatic_contract))
    /\ UNCHANGED <<ModelSetState, ac>>

AdiabaticWalkAct ==
    /\ ret.op = "pending"
    /\ ret.arg.adiabatic_contract
    /\ ret' = Walked("apply_adiabatic_contract", AdiabaticWalk(ret.arg.comps))
    /\ UNCHANGED <<ModelSetState, ac>>

NextWalk == CircularVelocityAct \/ EnclosedMassAct \/ AdiabaticWalkAct

SpecWalk == Pending(WalkArgs) /\ [][NextWalk]_vars

\* ------------------------------------ simulate_cube: the grid and its voxels
Max(a, b) == IF a >= b THEN a ELSE b

\* if np.mod(n, 2) < 0.5: n += 1
OddSize(n) == IF n % 2 = 0 THEN n + 1 ELSE n

\* The size of the line-of-sight axis of the mass cube: maxr_y is computed
\* per transform_method and not read here.
nz_sky_samp(nx_sky_samp, ny_sky_samp, transform_method) ==
    OddSize(Max(nx_sky_samp, ny_sky_samp))

\* np.floor of a fraction with a positive denominator.
Floor(q) == q.num \div q.den

Over(a, b) == Lowest(a.num * b.den, a.den * b.num)

\* thick = z_scalelength.value, 0 when it is not finite.
Thick(z_scalelength) ==
    IF IsFinite(z_scalelength) THEN z_scalelength.v ELSE Rat(0, 1)

\* np.int(np.floor(4.*thick/rstep*dscale + 0.5))
ScaleLengths(thick, rstep, dscale) ==
    Floor(Sum(Times(Over(Times(Rat(4, 1), thick), rstep), dscale), Rat(1, 2)))

\* zsize of _make_cube_ai.
make_cube_ai(z_scalelength, n_wholepix_z_min, rstep, oversample, dscale) ==
    OddSize(Max(n_wholepix_z_min * oversample,
                ScaleLengths(Thick(z_scalelength), rstep, dscale)))

\* zsize of the trimming done before transform_cube_affine, which selects
\* validz.
validz(z_scalelength, rstep_samp, oversample, dscale) ==
    OddSize(Max(3 * oversample,
                ScaleLengths(Thick(z_scalelength), rstep_samp, dscale)))

\* The z-windows of one call with zcalc_truncate, in the order they are
\* used.
Windows(a) ==
    LET rstep_samp == Over(a.rstep, Rat(a.oversample, 1))
        ai == make_cube_ai(a.z_scalelength, a.n_wholepix_z_min, rstep_samp,
                           a.oversample, a.dscale)
    IN  IF a.transform_method = Rotate
        THEN <<validz(a.z_scalelength, rstep_samp, a.oversample, a.dscale), ai>>
        ELSE <<ai>>

\* The root of a perfect square.
Root(n) == CHOOSE k \in 0..n : k * k = n

IsSquare(n) == \E k \in 0..n : k * k = n

RatRoot(q) == Rat(Root(q.num), Root(q.den))

Square(q) == Times(q, q)

\* vobs_mass of one voxel at (xgal, ygal) pixels from the centre, where vrot
\* is the circular velocity at the voxel (under 'rotate', the value
\* transform_cube_affine has resampled there):
\*     vobs_mass = v_sys + vrot*sin(inc)*xgal/(rgal/rstep_samp*dscale)
\*     vobs_mass[rgal == 0] = 0.
vobs_mass(v_sys, vrot, inc, xgal, ygal) ==
    LET rgal == RatRoot(Sum(Square(xgal), Square(ygal)))
    IN  IF rgal.num = 0 THEN Rat(0, 1)
        ELSE Sum(v_sys, Over(Times(Times(vrot, Sin(inc)), xgal), rgal))

FlowBase == [op |-> "flow", err |-> "none", arg |-> <<>>,
             vr_obs |-> Rat(0, 1), at |-> <<>>]

\* The block under "if ((self.flow is not None) & (self.flow_geometry is
\* None))" for one voxel of the sky grid: vr_obs is what it adds to the
\* voxel's velocity and at is where the flow was evaluated, in kpc.
flow_velocity(transform_method, zcalc_truncate, geometry, vr, sky, kpc) ==
    LET gal == evaluate(sky.x, sky.y, sky.z, geometry.inc, geometry.pa,
                        geometry.xshift, geometry.yshift, geometry.vel_shift)
        rgal3D == RatRoot(Sum(Sum(Square(gal.x), Square(gal.y)),
                              Square(gal.z)))
        vr_obs == IF rgal3D.num = 0 THEN vr
                  ELSE Neg(Over(Times(vr, sky.z), rgal3D))
    IN  IF transform_method = Direct
        THEN [FlowBase EXCEPT
                 !.vr_obs = vr_obs,
                 !.at = Point(Times(gal.x, kpc), Times(gal.y, kpc),
                              Times(gal.y, kpc))]
        ELSE IF zcalc_truncate
        THEN [FlowBase EXCEPT
                 !.err = "NameError",
                 !.at = Point(Times(gal.x, kpc), Times(gal.y, kpc),
                              Times(gal.z, kpc))]
        ELSE [FlowBase EXCEPT !.err = "TypeError"]

\* np.round: to the nearest integer, halves to the even one.
Round(q) ==
    LET f == Floor(q)
        rest == q.num - f * q.den
    IN  IF 2 * rest < q.den THEN f
        ELSE IF 2 * rest > q.den THEN f + 1
        ELSE IF f % 2 = 0 THEN f ELSE f + 1

\* xcenter_samp / ycenter_samp when xcenter / ycenter is None.
center_samp(n_sky_samp) == Rat(n_sky_samp - 1, 2)

\* cube[:, ypix, xpix]: a negative index counts from the end, an index
\* outside the axis raises IndexError.
InAxis(i, n) == i >= 0 - n /\ i < n

Wrapped(i, n) == IF i < 0 THEN i + n ELSE i

Pixels(ny_sky_samp, nx_sky_samp) ==
    (0..(ny_sky_samp - 1)) \X (0..(nx_sky_samp - 1))

UnresolvedBase == [op |-> "unresolved_outflow", err |-> "none", arg |-> <<>>,
                   pix |-> <<>>, added |-> <<>>]

\* The branch of an outflow whose _spatial_type is 'unresolved': added is
\* what cube_final gains, pixel by pixel ([ypix, xpix] -> spectrum).  v_sys is
\* assigned in the block of the mass components only; spectrum is
\* self.outflow(vx).
unresolved_outflow(has_mass, v_sys, spectrum, xshift, yshift, oversample, ny_sky_samp, nx_sky_samp) ==
    LET xpix == Round(Rat(xshift * oversample, 1))
                + Round(center_samp(nx_sky_samp))
        ypix == Round(Rat(yshift * oversample, 1))
                + Round(center_samp(ny_sky_samp))
        voutflow == [i \in DOMAIN spectrum |-> v_sys + spectrum[i]]
        zeros == [i \in DOMAIN spectrum |-> 0]
        at == <<Wrapped(ypix, ny_sky_samp), Wrapped(xpix, nx_sky_samp)>>
    IN  IF ~has_mass THEN [UnresolvedBase EXCEPT !.err = "NameError"]
        ELSE IF ~(InAxis(ypix, ny_sky_samp) /\ InAxis(xpix, nx_sky_samp))
        THEN [UnresolvedBase EXCEPT !.err = "IndexError",
                                    !.pix = <<ypix, xpix>>]
        ELSE [UnresolvedBase EXCEPT
                 !.pix = <<ypix, xpix>>,
                 !.added = [p \in Pixels(ny_sky_samp, nx_sky_samp) |->
                               IF p = at THEN voutflow ELSE zeros]]

MaxSamp == 4
MaxWholePix == 4
MaxThick == 4
MaxVoxel == 2
MaxAmp == 1

GridArgs ==
    [fn : {"grid"}, nx_sky_samp : 1..MaxSamp, ny_sky_samp : 1..MaxSamp,
     transform_method : {Direct, Rotate}]

\* z_scalelength in quarters of a kpc, or not finite.
WindowArgs ==
    [fn : {"window"}, transform_method : {Direct, Rotate},
     z_scalelength : {Num(Rat(k, 4)) : k \in 0..MaxThick} \cup {Inf, NaN},
     n_wholepix_z_min : 1..MaxWholePix, oversample : 1..MaxOver,
     rstep : Whole({1}), dscale : Whole(1..2)]

\* Voxels whose radius in the plane is a whole number of pixels.
PlaneVoxels ==
    {p \in ((0 - MaxVoxel)..MaxVoxel) \X ((0 - MaxVoxel)..MaxVoxel) :
        IsSquare(p[1] * p[1] + p[2] * p[2])}

VelocityArgs ==
    [fn : {"velocity"}, v_sys : Whole(0..MaxVel), vrot : Whole(0..MaxVel),
     inc : IncMenu, gal : PlaneVoxels]

SkyVoxels ==
    {p \in [x : (0 - MaxVoxel)..MaxVoxel, y : (0 - MaxVoxel)..MaxVoxel,
            z : (0 - MaxVoxel)..MaxVoxel] :
        IsSquare(p.x * p.x + p.y * p.y + p.z * p.z)}

Centred(inc, pa) ==
    [inc |-> inc, pa |-> pa, xshift |-> Rat(0, 1), yshift |-> Rat(0, 1),
     vel_shift |-> Rat(0, 1)]

FlowArgs ==
    [fn : {"flow"}, transform_method : {Direct, Rotate},
     zcalc_truncate : BOOLEAN,
     geometry : {Centred(inc, Angle(0, 5)) : inc \in IncMenu},
     vr : Whole({MaxVel}), sky : SkyVoxels, kpc : {Rat(1, 2)}]

UnresolvedArgs ==
    [fn : {"unresolved"}, has_mass : BOOLEAN, v_sys : 0..1,
     spectrum : [1..MaxSpec -> 0..MaxAmp],
     xshift : (0 - MaxShift)..MaxShift, yshift : {0}, oversample : 1..MaxOver,
     ny_sky_samp : {1}, nx_sky_samp : 1..MaxSamp]

SkyArgs == GridArgs \cup WindowArgs \cup VelocityArgs \cup FlowArgs
           \cup UnresolvedArgs

GridAct ==
    /\ ret.op = "pending"
    /\ ret.arg.fn = "grid"
    /\ ret' = [op |-> "grid", arg |-> ret.arg,
               nz_sky_samp |-> nz_sky_samp(ret.arg.nx_sky_samp,
                                           ret.arg.ny_sky_samp,
                                           ret.arg.transform_method)]
    /\ UNCHANGED <<ModelSetState, ac>>

WindowAct ==
    /\ ret.op = "pending"
    /\ ret.arg.fn = "window"
    /\ ret' = [op |-> "window", arg |-> ret.arg, zsize |-> Windows(ret.arg)]
    /\ UNCHANGED <<ModelSetState, ac>>

VelocityAct ==
    /\ ret.op = "pending"
    /\ ret.arg.fn = "velocity"
    /\ ret' = [op |-> "velocity", arg |-> ret.arg,
               vobs_mass |-> vobs_mass(ret.arg.v_sys, ret.arg.vrot,
                                       ret.arg.inc, Rat(ret.arg.gal[1], 1),
                                       Rat(ret.arg.gal[2], 1))]
    /\ UNCHANGED <<ModelSetState, ac>>

FlowAct ==
    /\ ret.op = "pending"
    /\ ret.arg.fn = "flow"
    /\ ret' = [flow_velocity(ret.arg.transform_method, ret.arg.zcalc_truncate,
                             ret.arg.geometry, ret.arg.vr,
                             Point(Rat(ret.arg.sky.x, 1), Rat(ret.arg.sky.y, 1),
                                   Rat(ret.arg.sky.z, 1)), ret.arg.kpc)
                  EXCEPT !.arg = ret.arg]
    /\ UNCHANGED <<ModelSetState, ac>>

UnresolvedAct ==
    /\ ret.op = "pending"
    /\ ret.arg.fn = "unresolved"
    /\ ret' = [unresolved_outflow(ret.arg.has_mass, ret.arg.v_sys,
                                  ret.arg.spectrum, ret.arg.xshift,
                                  ret.arg.yshift, ret.arg.oversample,
                                  ret.arg.ny_sky_samp, ret.arg.nx_sky_samp)
                  EXCEPT !.arg = ret.arg]
    /\ UNCHANGED <<ModelSetState, ac>>

NextSky == GridAct \/ WindowAct \/ VelocityAct \/ FlowAct \/ UnresolvedAct

SpecSky == Pending(SkyArgs) /\ [][NextSky]_vars

\* ------------------------------------------------------------------ claims
Held == {components[i][1] : i \in 1..Len(components)}

Obj(cmp) == objs[Get(components, cmp)]

HeldParams ==
    {e \in Held \X (1..MaxPar) : e[2] <= Len(Obj(e[1]).value)}

UpdateReturned == ret.op = "update_parameters" /\ ret.err = "none"

\* C1: after update_parameters(theta) returns, get_free_parameters_values()
\* returns theta: the same values at the same positions.
C1_RoundTrip ==
    UpdateReturned =>
        /\ get_free_parameters_values.err = "none"
        /\ get_free_parameters_values.p = ret.arg

\* C2: update_parameters(theta) with len(theta) # nparams_free raises
\* ValueError, changes no parameter value of the vector or of a component
\* and evaluates no tying function.
C2_LengthMismatch ==
    [][(ret'.op = "update_parameters" /\ ret'.len # nparams_free)
        => /\ ret'.err = "ValueError"
           /\ ret'.nevals = 0
           /\ objs' = objs
           /\ parameters' = parameters]_vars

C2_Witness ==
    /\ ret.op = "update_parameters"
    /\ ret.err = "ValueError"
    /\ ret.len > nparams_free
    /\ nparams_free > 0
    /\ nparams_tied > 0

TiedParams == {e \in HeldParams : IsTied(Get(tied, e[1])[e[2]])}

\* A tied parameter holds what its tying function returns in this state, in
\* the component and in the vector.
TiedCurrent(e) ==
    LET now == TieFn(Get(tied, e[1])[e[2]], Store) IN
    /\ Obj(e[1]).value[e[2]] = now
    /\ parameters[Get(param_keys, e[1])[e[2]] + 1] = now

TiedResolved ==
    \/ UpdateReturned
    \/ ret.op = "set_parameter_value" /\ ret.err = "none" /\ ret.arg = <<FALSE>>

\* C3 as stated: after update_parameters returns, and after a
\* set_parameter_value without skip_updated_tied, every tied parameter holds
\* the value its tying function returns in the resulting state, whatever
\* parameter the function reads.
C3_TiedCurrent == TiedResolved => \A e \in TiedParams : TiedCurrent(e)

ReadsUntied(e) ==
    LET t == Get(tied, e[1])[e[2]] IN ~IsTied(Get(tied, t.cmp)[t.idx])

\* C3 amended: after update_parameters returns, and after a
\* set_parameter_value without skip_updated_tied, every tied parameter whose
\* tying function reads a parameter that is not itself tied holds the value
\* the function returns in the resulting state.
C3_TiedCurrentUntied ==
    TiedResolved => \A e \in TiedParams : ReadsUntied(e) => TiedCurrent(e)

C3_Witness ==
    /\ UpdateReturned
    /\ ret.nevals > 0
    /\ \E e \in TiedParams : ReadsUntied(e) /\ e[1] # Get(tied, e[1])[e[2]].cmp
    /\ \E e \in TiedParams : ~ReadsUntied(e)

\* The rank of a free parameter: the number of free parameters before it,
\* components in the order they were added, parameters in declared order.
Before(d, e) ==
    \/ Get(components, d[1]) < Get(components, e[1])
    \/ d[1] = e[1] /\ d[2] < e[2]

Rank(e) == Cardinality({d \in HeldParams : IsFree(d[1], d[2]) /\ Before(d, e)})

KeyOf(e) ==
    LET pk == get_free_parameter_keys.pkeys
        at == {i \in 1..Len(pk) : pk[i][1] = e[1] /\ pk[i][2] = e[2]}
    IN  IF at = {} THEN -1 ELSE pk[CHOOSE i \in at : TRUE][3]

\* C4: get_free_parameter_keys() reports for every free parameter its rank
\* among the free parameters (components in the order added, parameters in
\* declared order) and -99 for a fixed or tied one, and update_parameters
\* assigns theta[k] to the parameter of rank k.
C4_RankKeys ==
    /\ get_free_parameter_keys.err = "none"
    /\ \A e \in HeldParams :
          KeyOf(e) = IF IsFree(e[1], e[2]) THEN Rank(e) ELSE -99
    /\ UpdateReturned =>
          \A e \in HeldParams :
              IsFree(e[1], e[2]) => Obj(e[1]).value[e[2]] = ret.arg[Rank(e) + 1]

\* C5: after every operation, a simulate_cube call that raises included,
\* the entry of the parameter vector at a parameter's index equals the value
\* stored in the component.
C5_LockStep ==
    \A e \in HeldParams :
        parameters[Get(param_keys, e[1])[e[2]] + 1] = Obj(e[1]).value[e[2]]

HeldLengths == [i \in 1..Len(components) |-> Len(objs[components[i][2]].value)]

\* C6: nparams is the sum of len(param_names) over the components held in
\* ModelSet.components, and the length of the parameter vector.
C6_NparamsSum ==
    /\ nparams = SumSeq(HeldLengths)
    /\ nparams = Len(parameters)

\* C7: nparams_free + nparams_tied + the number of parameters that are fixed
\* and not tied equals nparams.
C7_Counts ==
    nparams_free + nparams_tied
      + Cardinality({e \in HeldParams :
                       Get(fixed, e[1])[e[2]] /\ ~IsTied(Get(tied, e[1])[e[2]])})
      = nparams

\* C8: component names are unique: no add_component call succeeds with the
\* name of a component already in the set, whatever the two types.
C8_UniqueNames ==
    \A i, k \in 1..Len(objs) : i # k => objs[i].name # objs[k].name

CubeReturned == ret.op = "simulate_cube" /\ ret.err = "none"

AxisOk ==
    /\ Len(ret.spec) = ret.arg.nspec
    /\ \A i \in 1..Len(ret.spec) :
          ret.spec[i] = ret.arg.spec_start + (i - 1) * ret.arg.spec_step

Padded(n, oversize) == IF n % 2 = 1 /\ oversize % 2 = 0 THEN 1 ELSE 0

Normalised(transform_method) == Strip(Lower(transform_method))

BadCall(r) ==
    \/ Normalised(r.arg.transform_method) \notin {Direct, Rotate}
    \/ r.arg.spec_type = "wavelength" /\ line_center = "None"

\* C10: simulate_cube raises ValueError, before it changes a parameter of a
\* component and without a cube, when transform_method (lower-cased,
\* stripped) is neither 'direct' nor 'rotate', or when spec_type is
\* 'wavelength' and line_center is not set.
C10_ConfigError ==
    [][(ret'.op = "simulate_cube" /\ ret' # ret /\ BadCall(ret'))
        => /\ ret'.err = "ValueError"
           /\ ~ret'.alloc
           /\ ret'.cube = <<>>
           /\ objs' = objs
           /\ parameters' = parameters]_vars

C10_Witness ==
    /\ ret.op = "simulate_cube"
    /\ ret.err = "ValueError"
    /\ Normalised(ret.arg.transform_method) = Rotate
    /\ ret.arg.spec_type = "wavelength"
    /\ line_center = "None"
    /\ HasMass
    /\ slots.geometry # 0
    /\ slots.dispersion_profile # 0

MvirialReturned == ret.op = "calc_mvirial_from_fdm"

Untouched(r) == r.err = "none" /\ r.nbary = 0 /\ r.ntrial = 0 /\ r.nbrentq = 0

NoSignChange(a) ==
    /\ ~FdmLess(a.halo.fdm, FdmTiny)
    /\ FdmLess(a.halo.fdm, Fdm(FdmDen, 0))
    /\ a.r_fdm >= 0
    /\ IsFinite(a.vbar)
    /\ LET vtest == [i \in 1..Len(mtest) |->
                       MinfuncSign(a.halo, mtest[i], a.vbar.v * a.vbar.v,
                                   a.r_fdm)]
       IN  Below(vtest) = {} \/ Above(vtest) = {}

\* C12: for fdm strictly inside (0,1), when the scan over the trial masses
\* finds no sign change, calc_mvirial_from_fdm returns NaN and raises no
\* exception.
C12_NoBracketNaN ==
    (MvirialReturned /\ NoSignChange(ret.arg))
        => ret.err = "none" /\ ret.out = NaN

\* What the loop of apply_adiabatic_contract has recorded so far.
Passed == IF ac.pc = "loop" THEN 1..Len(ac.solved) ELSE {}

\* C13: at every radius where the solver failed r' is the radius itself and
\* converged is False, at every radius where it returned converged is True and
\* r' is what it returned, and the loop goes on after a failure.
C13_FallbackOriginal ==
    \A i \in Passed :
        /\ ac.solved[i].kind = "raise" =>
              ac.rprime_all_1d[i] = i /\ ~ac.converged[i]
        /\ ac.solved[i].kind = "ok" =>
              ac.rprime_all_1d[i] = ac.solved[i].x /\ ac.converged[i]

\* C13 as amended: a returned result that adiabatic_contract_modify_small_values
\* rejects (negative, or above 5 * max(r1d)) is treated as a failure; a failure
\* never ends the loop, every radius of the grid is passed before the return.
C13_Fallback ==
    /\ \A i \in Passed :
        LET failed == \/ ac.solved[i].kind = "raise"
                      \/ /\ ret.arg.small_values = "True"
                         /\ \/ ac.solved[i].x < 0
                            \/ ac.solved[i].x > SmallFactor * ret.arg.n
        IN  IF failed THEN ac.rprime_all_1d[i] = i /\ ~ac.converged[i]
            ELSE ac.rprime_all_1d[i] = ac.solved[i].x /\ ac.converged[i]
    /\ ac.pc = "loop" => Len(ac.solved) = ac.i - 1 /\ ac.i <= ret.arg.n + 1
    /\ ret.op = "apply_adiabatic_contract" /\ ret.arg.adiabatic_contract =>
          Len(ret.converged) = ret.arg.n /\ ret.err = "none"

C13_Witness ==
    /\ ac.pc = "loop"
    /\ ac.i > ret.arg.n
    /\ \E i, j, k \in Passed :
          /\ i < j
          /\ ac.solved[i].kind = "raise"
          /\ ac.solved[j].kind = "ok" /\ ac.converged[j]
          /\ ac.solved[k].kind = "ok" /\ ~ac.converged[k]

ContractReturned == ret.op = "apply_adiabatic_contract" /\ ret.arg.adiabatic_contract

Failures(converged) == {i \in 1..Len(converged) : ~converged[i]}

\* C14: when the solver failed at more than 10% of the radii the interpolation
\* basis is the converged radii only, and when it failed at 10% or fewer the
\* basis is every radius of the grid.
C14_Basis ==
    ContractReturned =>
        LET IsConverged(i) == ret.converged[i]
        IN  IF KeepDen * Cardinality(Failures(ret.converged))
                  > (KeepDen - KeepNum) * ret.arg.n
            THEN ret.r1d = SelectSeq(r1d(ret.arg.n), IsConverged)
            ELSE ret.r1d = r1d(ret.arg.n)

\* C15: the solver runs at most 200 iterations at a radius, no error of the
\* solver leaves apply_adiabatic_contract, and every call that was started
\* returns its velocity arrays, one value for each sample radius.
C15_Terminates ==
    /\ [](ac.pc = "loop" => ac.iter <= MaxIter)
    /\ [](ret.op = "apply_adiabatic_contract" =>
             /\ ret.err = "none"
             /\ Len(ret.vel_sq) = ret.arg.n
             /\ Len(ret.vhalo_adi) = ret.arg.n)
    /\ <>(ret.op = "apply_adiabatic_contract")

C15_Witness ==
    /\ ac.pc = "loop"
    /\ ac.iter = MaxIter
    /\ ac.i = ret.arg.n
    /\ \E i \in Passed : ac.solved[i].kind = "raise"

\* The solver did what a root finder is for: it returned the radius itself
\* where that is a root of _adiabatic and failed where there is none.
SolvedExactly ==
    \A i \in 1..ret.arg.n :
        ret.solved[i] =
            IF adiabatic(i, i, vhalo1d(ret.arg.curve, ret.arg.n),
                         r1d(ret.arg.n), ret.arg.vbsq) = Num(0)
            THEN Ok(i) ELSE Raise

\* C16: with a baryonic velocity of zero, r' = r at every radius of the grid,
\* the first one included, and the contracted halo velocity returned at each
\* radius is the halo velocity itself.
C16_ZeroBaryons ==
    ContractReturned /\ ret.arg.vbsq = 0 /\ SolvedExactly =>
        /\ ret.r1d = r1d(ret.arg.n)
        /\ ret.rprime_all_1d = r1d(ret.arg.n)
        /\ \A i \in 1..ret.arg.n :
              ret.vhalo_adi[i].num =
                  vhalo1d(ret.arg.curve, ret.arg.n)[i] * ret.vhalo_adi[i].den

\* v^2 - 3.36 * (r / Re) * sigma0^2 of a call of apply_pressure_support, Re
\* being the radius get_pressure_support_param gives.
Unclamped(arg) ==
    LET pre == get_pressure_support_param(arg.ko, arg.model.comps, "re").p_val.v
    IN  Difference(Squared(arg.vel),
                   Rat(DriftNum * arg.r * arg.model.sigma0.v * arg.model.sigma0.v,
                       DriftDen * pre))

\* C17: with pressure support of type 1 enabled, correcting the velocity that
\* apply_pressure_support returned gives the velocity back wherever
\* v^2 - 3.36 (r/Re) sigma0^2 >= 0, and wherever that is negative
\* apply_pressure_support returns 0.
C17_RoundTrip ==
    ret.op # "pending" /\ ret.arg.ko.pressure_support /\ ret.err = "none" =>
        /\ ret.op = "correct_for_pressure_support" /\ Unclamped(ret.arg).num >= 0
              => ret.vel = ret.arg.vel
        /\ ret.op = "apply_pressure_support" /\ Unclamped(ret.arg).num < 0
              => ret.vel = Velocity(0)

C17_Witness ==
    /\ ret.op = "correct_for_pressure_support"
    /\ ret.err = "none"
    /\ ret.arg.ko.pressure_support
    /\ ret.arg.r > 0
    /\ ret.arg.model.sigma0.v > 0
    /\ ret.arg.ko.pressure_support_re = NoneVal
    /\ Unclamped(ret.arg).num > 0
    /\ ret.vel = ret.arg.vel

\* The mass components of a model that are disks, by position.
Disks(comps) ==
    {k \in 1..Len(comps) : comps[k].mass /\ comps[k].cls \in DiskClasses}

\* The parameter asked for is not set in the options, and the first disk of
\* the model, if there is one, has it (an ExpDisk has no n).
FromModel(arg) ==
    /\ arg.param \in {"re", "n"}
    /\ (IF arg.param = "re" THEN arg.ko.pressure_support_re
        ELSE arg.ko.pressure_support_n) = NoneVal
    /\ Disks(arg.comps) # {} =>
          getattribute(arg.comps[First(Disks(arg.comps))],
              IF arg.comps[First(Disks(arg.comps))].cls \in {"Sersic", "ExpDisk"}
              THEN p_altnames(arg.param)
              ELSE DiskName(p_altnames(arg.param))) # AttributeError

\* C18: with pressure_support_re (pressure_support_n) None the value returned
\* is r_eff (n) of the first disk among the mass components, whatever was
\* added before it, and 1 only when the model has no disk.
C18_FirstDisk ==
    ret.op = "get_pressure_support_param" /\ FromModel(ret.arg) =>
        /\ ret.err = "none"
        /\ ret.p_val =
             IF Disks(ret.arg.comps) = {} THEN Num(1)
             ELSE LET mcomp == ret.arg.comps[First(Disks(ret.arg.comps))]
                  IN  Num(IF ret.arg.param = "re" THEN mcomp.r_eff ELSE mcomp.n)

C20_SubtypeChecked ==
    /\ ret.op \in {"circular_velocity", "enclosed_mass",
                   "apply_adiabatic_contract"}
    /\ OfSubtype(ret.arg.comps, {"gas"}) # {}
    /\ OfSubtype(ret.arg.comps, {"combined"}) = {}
    => ret.err = "TypeError"


\* C21: when update_parameters returns, each tying function has been
\* evaluated exactly once, in one pass that ran after the last assignment
\* from theta (the assignments themselves resolve no tie), so every tied
\* parameter reading an untied parameter holds the function's value in the
\* resulting state.
C21_TiesAfterAssignments ==
    UpdateReturned =>
        /\ ret.nevals = IF nparams_tied > 0 THEN Cardinality(TiedParams) ELSE 0
        /\ \A e \in TiedParams : ReadsUntied(e) => TiedCurrent(e)

C21_Witness ==
    /\ UpdateReturned
    /\ ret.len >= 2
    /\ ret.nevals >= 1
    /\ \E e \in TiedParams :
           LET t == Get(tied, e[1])[e[2]] IN IsFree(t.cmp, t.idx)


\* C22: with mass components, the line-of-sight axis of simulate_cube has
\* max(nx_sky_samp, ny_sky_samp) samples, one more when that is even, under
\* the 'direct' method, and strictly more than that under 'rotate'.
C22_LineOfSight ==
    ret.op = "grid" =>
        LET widest == Max(ret.arg.nx_sky_samp, ret.arg.ny_sky_samp)
            direct == IF widest % 2 = 0 THEN widest + 1 ELSE widest
        IN  /\ ret.arg.transform_method = Direct => ret.nz_sky_samp = direct
            /\ ret.arg.transform_method = Rotate => ret.nz_sky_samp > direct

\* C23: with zcalc_truncate, every z-window of the call has the size
\* max(n_wholepix_z_min*oversample, floor(4*z_scalelength/rstep_samp*dscale
\* + 0.5)), one more when even, a scale length that is not finite counting
\* as 0, and so spans at least n_wholepix_z_min whole pixels, under 'direct'
\* and under 'rotate'.
C23_Window ==
    ret.op = "window" =>
        LET a == ret.arg
            thick == IF a.z_scalelength.kind = "num" THEN a.z_scalelength.v
                     ELSE Rat(0, 1)
            lengths == Floor(Sum(Lowest(4 * thick.num * a.oversample
                                           * a.dscale.num,
                                        thick.den * a.rstep.num
                                           * a.dscale.den),
                                 Rat(1, 2)))
            least == a.n_wholepix_z_min * a.oversample
            size == OddSize(Max(least, lengths))
        IN  \A i \in DOMAIN ret.zsize :
                ret.zsize[i] = size /\ ret.zsize[i] >= least

\* C24: the line-of-sight velocity of a voxel of the mass model is vel_shift
\* plus vrot*sin(inc)*x/r, the second term being 0 where r = 0.
C24_Systemic ==
    ret.op = "velocity" =>
        LET a == ret.arg
            r == Root(a.gal[1] * a.gal[1] + a.gal[2] * a.gal[2])
            rotation == IF r = 0 THEN Rat(0, 1)
                        ELSE Times(Times(a.vrot, Sin(a.inc)), Rat(a.gal[1], r))
        IN  ret.vobs_mass = Sum(a.v_sys, rotation)

\* C25: with a flow and no flow geometry, the call completes under either
\* transform method, with and without zcalc_truncate, and adds
\* -vr*zsky/r3D (vr where r3D = 0) to the voxel's velocity, the flow being
\* evaluated at the voxel's galaxy-frame (x, y, z) in kpc.
C25_Flow ==
    ret.op = "flow" =>
        LET a == ret.arg
            sky == Point(Rat(a.sky.x, 1), Rat(a.sky.y, 1), Rat(a.sky.z, 1))
            gal == coord_transform(a.geometry, sky)
            r3D == Root(a.sky.x * a.sky.x + a.sky.y * a.sky.y
                        + a.sky.z * a.sky.z)
        IN  /\ ret.err = "none"
            /\ ret.vr_obs = IF r3D = 0 THEN a.vr
                            ELSE Times(a.vr, Rat(0 - a.sky.z, r3D))
            /\ ret.at = Point(Times(gal.x, a.kpc), Times(gal.y, a.kpc),
                              Times(gal.z, a.kpc))

\* C26: an unresolved outflow whose pixel lies in the cube adds the
\* outflow's spectrum to the pixel (round(yshift*oversample) +
\* round(ycenter_samp), round(xshift*oversample) + round(xcenter_samp)) and
\* nothing to any other pixel, with or without mass components and whatever
\* the systemic velocity.
C26_Unresolved ==
    ret.op = "unresolved_outflow" =>
        LET a == ret.arg
            ypix == Round(Rat(a.yshift * a.oversample, 1))
                    + Round(Rat(a.ny_sky_samp - 1, 2))
            xpix == Round(Rat(a.xshift * a.oversample, 1))
                    + Round(Rat(a.nx_sky_samp - 1, 2))
        IN  (ypix \in 0..(a.ny_sky_samp - 1) /\ xpix \in 0..(a.nx_sky_samp - 1))
            => /\ ret.err = "none"
               /\ ret.pix = <<ypix, xpix>>
               /\ \A p \in Pixels(a.ny_sky_samp, a.nx_sky_samp) :
                      ret.added[p] = IF p = <<ypix, xpix>> THEN a.spectrum
                                     ELSE [i \in DOMAIN a.spectrum |-> 0]


Ids == {components[i][2] : i \in 1..Len(components)}

Added == ret'.op = "add_component" /\ ret'.err = "none"

\* C27: an add_component call that succeeds places the new component's
\* parameters at the global indices nparams_old .. nparams_old + n - 1 and
\* leaves the global indices and the stored values of every component held
\* before; no step removes a component from the set or shortens the
\* parameter vector.
C27_AppendOnly ==
    [][/\ Ids \subseteq Ids'
       /\ Len(parameters') >= Len(parameters)
       /\ Added =>
            /\ \A c \in Held : Get(param_keys', c) = Get(param_keys, c)
            /\ \A i \in 1..Len(parameters) : parameters'[i] = parameters[i]
            /\ LET new == objs'[Len(objs')]
               IN  Get(param_keys', new.name)
                     = [i \in 1..Len(new.value) |-> nparams + i - 1]]_vars


Geometries ==
    {slots.geometry, slots.outflow_geometry, slots.flow_geometry} \ {0}

\* C28: a simulate_cube call, whether it returns a cube or raises, leaves
\* the xshift and the yshift of the galaxy, outflow and flow geometries at
\* the values they had before the call.
C28_ShiftsKept ==
    [][ret'.op = "simulate_cube" =>
          \A g \in Geometries :
              /\ objs'[g].value[1] = objs[g].value[1]
              /\ objs'[g].value[2] = objs[g].value[2]]_vars


FreeParams == {e \in HeldParams : IsFree(e[1], e[2])}

\* C29: after any sequence of add_component and set_parameter_fixed calls,
\* nparams_free is the number of parameters that are neither fixed nor tied,
\* get_free_parameters_values() fills its array without leaving it, and the
\* indices other than -99 in get_free_parameter_keys() are 0 ..
\* nparams_free-1, each used once.
C29_FreeCount ==
    /\ nparams_free = Cardinality(FreeParams)
    /\ get_free_parameters_values.err = "none"
    /\ LET pkeys == get_free_parameter_keys.pkeys
           used == {i \in 1..Len(pkeys) : pkeys[i][3] # -99}
       IN  /\ {pkeys[i][3] : i \in used} = 0..(nparams_free - 1)
           /\ Cardinality(used) = nparams_free


\* C30: circular_velocity and enclosed_mass raise AttributeError whenever no
\* component of type mass is in the set, whatever entries the components of
\* other types have left in mass_components.
C30_NoMass ==
    /\ ret.op \in {"circular_velocity", "enclosed_mass"}
    /\ Active(ret.arg.comps) = {}
    => ret.err = "AttributeError"

====
